---- MODULE Spec2Model ----
(***************************************************************************)
(* Quantum Tic-Tac-Toe game engine (QuantumTicTacToeGame.ts): three 3x3     *)
(* boards sharing one move sequence, hidden per-piece occupancy, public     *)
(* visibility on collision, per-board wins and the overall outcome.         *)
(*                                                                          *)
(* The game object is one record, `game`, with the fields of the class:     *)
(* game.state is the published QuantumTicTacToeGameState, the fields        *)
(* starting with an underscore are the private fields of the class.         *)
(* Every engine operation is an operator from a game object and its         *)
(* arguments to [game |-> the object afterwards, err |-> "OK" or the error  *)
(* thrown]; the actions apply these operators to inputs drawn from small    *)
(* sets.  The error of a call is the err field of the operator's result;    *)
(* the state holds the object alone.                                        *)
(*                                                                          *)
(* TicTacToeGame (the class of the three sub-games) is outside the source:  *)
(* the model carries the fields of a sub-game's state that the engine reads *)
(* or sets when a board is won (moves, status, winner).  Its constructor and*)
(* its join and leave, which _join and _leave call on each sub-game, are    *)
(* TicTacToeGame_new, TicTacToeGame_join and TicTacToeGame_leave, written   *)
(* from the specification of the sub-board: a board whose moves, status and *)
(* winner change only by the engine's own bookkeeping.  The x and o that    *)
(* _appendMoveToSubGame copies into a sub-game are never read by the engine *)
(* and are not carried.                                                     *)
(*                                                                          *)
(* The client side (QuantumTicTacToeAreaController.ts) is a record of the   *)
(* viewing player, the last model received and the boards shown; its        *)
(* getters are operators of a model, and _updateFrom is an operator from a  *)
(* controller and a new model to the controller afterwards and the set of   *)
(* events emitted.  Controllers are not part of the state: the properties   *)
(* apply the operators to the game states the engine reaches.               *)
(***************************************************************************)
EXTENDS Integers, Sequences, FiniteSets, TLC

VARIABLES game

vars == <<game>>

(***************************************************************************)
(* Bounds and input sets                                                    *)
(***************************************************************************)
\* The runs explored are the documented games below, up to any of their
\* moves, followed by at most MaxMoves further accepted moves of any kind;
\* join and leave are unrestricted.
MaxMoves == 1

\* 'should end the game, record scores, and declare a tie when boards are
\* exhausted'
TieGame ==
    << <<"A", 0, 0>>, <<"B", 0, 0>>, <<"A", 0, 1>>, <<"B", 0, 1>>,
       <<"A", 0, 2>>, <<"B", 0, 2>>, <<"C", 0, 0>>, <<"C", 1, 1>>,
       <<"C", 0, 2>>, <<"C", 0, 1>>, <<"C", 2, 1>>, <<"C", 1, 2>>,
       <<"C", 1, 0>>, <<"C", 2, 0>>, <<"C", 2, 2>> >>

\* 'should end the game and declare the higher-scoring player the winner'
WonGame ==
    << <<"A", 0, 0>>, <<"B", 0, 0>>, <<"A", 0, 1>>, <<"C", 0, 0>>,
       <<"A", 0, 2>>, <<"C", 1, 0>>, <<"B", 2, 0>>, <<"C", 2, 0>>,
       <<"B", 2, 1>>, <<"B", 0, 1>>, <<"B", 2, 2>> >>

\* 'should award X a point when completing a row, even with collisions'
CollisionGame ==
    << <<"A", 0, 0>>, <<"B", 0, 0>>, <<"A", 0, 1>>, <<"A", 0, 0>>,
       <<"A", 0, 2>> >>

\* 'should award O a point when completing a row'
OWinsGame ==
    << <<"A", 0, 0>>, <<"B", 0, 0>>, <<"A", 1, 0>>, <<"B", 0, 1>>,
       <<"C", 1, 1>>, <<"B", 0, 2>> >>

\* 'should keep a square hidden until a collision occurs and reveal it
\* afterwards', with its last call, which the test expects to be refused
\* and the engine accepts
RevealGame ==
    << <<"A", 0, 0>>, <<"A", 0, 0>>, <<"B", 1, 1>>, <<"A", 0, 0>> >>

DocumentedGames == {TieGame, WonGame, CollisionGame, OWinsGame, RevealGame}

\* The length of the longest prefix of the move log that is the start of
\* the documented game `played` (X moves first, then the pieces alternate).
CommonPrefix(moves, played) ==
    LET agree(i) == /\ moves[i].board = played[i][1]
                    /\ moves[i].row = played[i][2]
                    /\ moves[i].col = played[i][3]
                    /\ moves[i].gamePiece = (IF i % 2 = 1 THEN "X" ELSE "O")
        n == IF Len(moves) < Len(played) THEN Len(moves) ELSE Len(played)
        same == {k \in 0..n : \A i \in 1..k : agree(i)}
    IN  CHOOSE k \in same : \A j \in same : j <= k

\* The number of moves of the log past the documented games.
MovesOffRecord(moves) ==
    LET best == {CommonPrefix(moves, played) : played \in DocumentedGames}
    IN  Len(moves) - (CHOOSE k \in best : \A j \in best : j <= k)

\* Player identities handed to join, leave and applyMove.
Players == {"p1", "p2", "p3"}

\* <<row, col>> arguments handed to applyMove: the nine squares of a grid
\* and a position off each of its four sides.
PositionInputs ==
    ({0, 1, 2} \X {0, 1, 2}) \cup {<<3, 0>>, <<0, -1>>, <<-1, 0>>, <<0, 3>>}

\* The moves handed to applyMove.
MoveInputs ==
    {[playerID |-> player, board |-> board, row |-> pos[1], col |-> pos[2]] :
        player \in Players, board \in {"A", "B", "C"}, pos \in PositionInputs}

(***************************************************************************)
(* Values                                                                   *)
(***************************************************************************)
Undefined == "undefined"

OK == "OK"

PLAYER_ALREADY_IN_GAME_MESSAGE == "AlreadyInGame"

GAME_FULL_MESSAGE == "GameFull"

PLAYER_NOT_IN_GAME_MESSAGE == "PlayerNotInGame"

GAME_NOT_IN_PROGRESS_MESSAGE == "GameNotInProgress"

MOVE_NOT_YOUR_TURN_MESSAGE == "NotYourTurn"

BOARD_POSITION_NOT_VALID_MESSAGE == "InvalidPosition"

BOARD_POSITION_NOT_EMPTY_MESSAGE == "PositionNotEmpty"

BOARD_IDS == <<"A", "B", "C">>

BoardID == {"A", "B", "C"}

PlayerPiece == {"X", "O"}

GridIndex == {0, 1, 2}

emptyGrid == [r \in GridIndex |-> [c \in GridIndex |-> FALSE]]

cloneGrid(grid) == [r \in DOMAIN grid |-> [c \in DOMAIN grid[r] |-> grid[r][c]]]

createEmptyVisibility == [b \in BoardID |-> emptyGrid]

\* Mutant of cloneVisibility: the clone starts from empty grids.
cloneVisibility_Empty(visibility) == [b \in BoardID |-> emptyGrid]

cloneVisibility(visibility) == [b \in BoardID |-> cloneGrid(visibility[b])]

createEmptyPrivateBoards == [p \in PlayerPiece |-> [b \in BoardID |-> emptyGrid]]

\* A value that a condition of the code takes for true: a player id or a
\* piece that is neither undefined nor the empty string.
Truthy(value) == value # Undefined /\ value # ""

\* new TicTacToeGame(): one board's bookkeeping, with no move and not started.
TicTacToeGame_new ==
    [moves |-> <<>>, status |-> "WAITING_TO_START", winner |-> Undefined]

\* The error of a sub-game that refuses a leave.
SubGameRefusal == "SubGameRefusal"

\* TicTacToeGame.join: registers the player with the board; the moves, the
\* status and the winner of the board are set by the engine alone.
TicTacToeGame_join(subGame, player) == [game |-> subGame, err |-> OK]

\* TicTacToeGame.leave: the leave reaches the board, which refuses it when
\* it is already terminal; the moves, the status and the winner of the board
\* are set by the engine alone.
TicTacToeGame_leave(subGame, player) ==
    [game |-> subGame,
     err |-> IF subGame.status = "OVER" THEN SubGameRefusal ELSE OK]

createSubGames == [b \in BoardID |-> TicTacToeGame_new]

\* No GameResult yet (`_result` undefined); a GameResult carries the scores
\* object as its set of <<player, score>> entries.
NoResult == [defined |-> FALSE, scores |-> {}]

\* No move found by Array.find.
NoMove == [gamePiece |-> Undefined, row |-> -1, col |-> -1]

\* The object after `new QuantumTicTacToeGame()`.
NewGame ==
    [state |-> [moves |-> <<>>, status |-> "WAITING_TO_START",
                xScore |-> 0, oScore |-> 0,
                publiclyVisible |-> createEmptyVisibility,
                x |-> Undefined, o |-> Undefined, winner |-> Undefined],
     _games |-> createSubGames,
     _xScore |-> 0,
     _oScore |-> 0,
     _moveCount |-> 0,
     _privateBoards |-> createEmptyPrivateBoards,
     _boardWinners |-> [b \in BoardID |-> Undefined],
     _result |-> NoResult]

\* A call that returns normally / a call that throws InvalidParametersError.
Return(g) == [game |-> g, err |-> OK]

Throw(g, message) == [game |-> g, err |-> message]

(***************************************************************************)
(* _resetGameState, _join, _leave                                           *)
(***************************************************************************)
\* Mutant of _resetGameState: the board winners survive the reset.
_resetGameState_KeepWinners(g) ==
    [g EXCEPT !._games = createSubGames,
              !._privateBoards = createEmptyPrivateBoards,
              !._xScore = 0,
              !._oScore = 0,
              !._moveCount = 0,
              !._result = NoResult,
              !.state = [moves |-> <<>>, status |-> "WAITING_TO_START",
                         xScore |-> 0, oScore |-> 0,
                         publiclyVisible |-> createEmptyVisibility,
                         x |-> Undefined, o |-> Undefined,
                         winner |-> Undefined]]

_resetGameState(g) ==
    [g EXCEPT !._games = createSubGames,
              !._privateBoards = createEmptyPrivateBoards,
              !._boardWinners = [b \in BoardID |-> Undefined],
              !._xScore = 0,
              !._oScore = 0,
              !._moveCount = 0,
              !._result = NoResult,
              !.state = [moves |-> <<>>, status |-> "WAITING_TO_START",
                         xScore |-> 0, oScore |-> 0,
                         publiclyVisible |-> createEmptyVisibility,
                         x |-> Undefined, o |-> Undefined,
                         winner |-> Undefined]]

\* The three calls this._games[board].join(player), in the order of
\* BOARD_IDS; a call that throws ends them and the throw is _join's.
RECURSIVE joinSubGames(_, _, _)
joinSubGames(g, boards, player) ==
    IF boards = <<>>
    THEN Return(g)
    ELSE LET board == Head(boards)
             joined == TicTacToeGame_join(g._games[board], player)
         IN  IF joined.err # OK
             THEN Throw([g EXCEPT !._games[board] = joined.game], joined.err)
             ELSE joinSubGames([g EXCEPT !._games[board] = joined.game],
                               Tail(boards), player)

\* The three calls this._games[board].leave(player), each in a try whose
\* catch does nothing.
RECURSIVE leaveSubGames(_, _, _)
leaveSubGames(g, boards, player) ==
    IF boards = <<>>
    THEN g
    ELSE LET board == Head(boards)
             left == TicTacToeGame_leave(g._games[board], player)
         IN  leaveSubGames([g EXCEPT !._games[board] = left.game],
                           Tail(boards), player)

\* Mutant of _join: the O slot is filled before the X slot.
_join_OFirst(g, player) ==
    IF g.state.x = player \/ g.state.o = player
    THEN Throw(g, PLAYER_ALREADY_IN_GAME_MESSAGE)
    ELSE IF ~Truthy(g.state.o)
    THEN LET joined == joinSubGames([g EXCEPT !.state.o = player,
                                              !.state.status = "IN_PROGRESS",
                                              !.state.winner = Undefined],
                                    BOARD_IDS, player)
         IN  IF joined.err # OK
             THEN joined
             ELSE Return([joined.game EXCEPT !._moveCount = Len(g.state.moves),
                                             !._result = NoResult])
    ELSE IF ~Truthy(g.state.x)
    THEN joinSubGames([g EXCEPT !.state.x = player], BOARD_IDS, player)
    ELSE Throw(g, GAME_FULL_MESSAGE)

\* Mutant of _join: seating O leaves the winner of the game before in place.
_join_WinnerKept(g, player) ==
    IF g.state.x = player \/ g.state.o = player
    THEN Throw(g, PLAYER_ALREADY_IN_GAME_MESSAGE)
    ELSE IF ~Truthy(g.state.x)
    THEN joinSubGames([g EXCEPT !.state.x = player], BOARD_IDS, player)
    ELSE IF ~Truthy(g.state.o)
    THEN LET joined == joinSubGames([g EXCEPT !.state.o = player,
                                              !.state.status = "IN_PROGRESS"],
                                    BOARD_IDS, player)
         IN  IF joined.err # OK
             THEN joined
             ELSE Return([joined.game EXCEPT !._moveCount = Len(g.state.moves),
                                             !._result = NoResult])
    ELSE Throw(g, GAME_FULL_MESSAGE)

\* Mutant of _join: only the X slot is looked at for a player already in.
_join_XOnly(g, player) ==
    IF g.state.x = player
    THEN Throw(g, PLAYER_ALREADY_IN_GAME_MESSAGE)
    ELSE IF ~Truthy(g.state.x)
    THEN joinSubGames([g EXCEPT !.state.x = player], BOARD_IDS, player)
    ELSE IF ~Truthy(g.state.o)
    THEN LET joined == joinSubGames([g EXCEPT !.state.o = player,
                                              !.state.status = "IN_PROGRESS",
                                              !.state.winner = Undefined],
                                    BOARD_IDS, player)
         IN  IF joined.err # OK
             THEN joined
             ELSE Return([joined.game EXCEPT !._moveCount = Len(g.state.moves),
                                             !._result = NoResult])
    ELSE Throw(g, GAME_FULL_MESSAGE)

\* The state is assigned before the sub-games are joined, the move count and
\* the result after: a throw of a sub-game's join leaves the player seated.
_join(g, player) ==
    IF g.state.x = player \/ g.state.o = player
    THEN Throw(g, PLAYER_ALREADY_IN_GAME_MESSAGE)
    ELSE IF ~Truthy(g.state.x)
    THEN joinSubGames([g EXCEPT !.state.x = player], BOARD_IDS, player)
    ELSE IF ~Truthy(g.state.o)
    THEN LET joined == joinSubGames([g EXCEPT !.state.o = player,
                                              !.state.status = "IN_PROGRESS",
                                              !.state.winner = Undefined],
                                    BOARD_IDS, player)
         IN  IF joined.err # OK
             THEN joined
             ELSE Return([joined.game EXCEPT !._moveCount = Len(g.state.moves),
                                             !._result = NoResult])
    ELSE Throw(g, GAME_FULL_MESSAGE)

\* Mutant of _leave: a mid-game leave also empties the move log.
_leave_ClearsLog(g, player) ==
    LET isX == g.state.x = player
        isO == g.state.o = player
        left == leaveSubGames(g, BOARD_IDS, player)
    IN  IF ~isX /\ ~isO
        THEN Throw(g, PLAYER_NOT_IN_GAME_MESSAGE)
        ELSE IF Truthy(g.state.x) /\ Truthy(g.state.o)
        THEN LET winnerID == IF isX THEN g.state.o ELSE g.state.x
             IN  Return([left EXCEPT !.state.status = "OVER",
                                     !.state.winner = winnerID,
                                     !.state.moves = <<>>,
                                     !._moveCount = 0,
                                     !.state.x = IF isX THEN Undefined ELSE @,
                                     !.state.o = IF isO THEN Undefined ELSE @])
        ELSE Return(_resetGameState(left))

\* Mutant of _leave: the player who leaves mid-game is declared the winner.
_leave_WinnerIsLeaver(g, player) ==
    LET isX == g.state.x = player
        isO == g.state.o = player
        left == leaveSubGames(g, BOARD_IDS, player)
    IN  IF ~isX /\ ~isO
        THEN Throw(g, PLAYER_NOT_IN_GAME_MESSAGE)
        ELSE IF Truthy(g.state.x) /\ Truthy(g.state.o)
        THEN LET winnerID == IF isX THEN g.state.x ELSE g.state.o
             IN  Return([left EXCEPT !.state.status = "OVER",
                                     !.state.winner = winnerID,
                                     !.state.x = IF isX THEN Undefined ELSE @,
                                     !.state.o = IF isO THEN Undefined ELSE @])
        ELSE Return(_resetGameState(left))

_leave(g, player) ==
    LET isX == g.state.x = player
        isO == g.state.o = player
        left == leaveSubGames(g, BOARD_IDS, player)
    IN  IF ~isX /\ ~isO
        THEN Throw(g, PLAYER_NOT_IN_GAME_MESSAGE)
        ELSE IF Truthy(g.state.x) /\ Truthy(g.state.o)
        THEN LET winnerID == IF isX THEN g.state.o ELSE g.state.x
             IN  Return([left EXCEPT !.state.status = "OVER",
                                     !.state.winner = winnerID,
                                     !.state.x = IF isX THEN Undefined ELSE @,
                                     !.state.o = IF isO THEN Undefined ELSE @])
        ELSE Return(_resetGameState(left))

(***************************************************************************)
(* applyMove and its helpers.  A move is [playerID, board, row, col]; the   *)
(* engine derives the piece from the player's slot.                         *)
(***************************************************************************)
\* Mutant of OutOfTurn: only X is held to the parity of the move count.
OutOfTurn_XOnly(g, piece) == piece = "X" /\ g._moveCount % 2 = 1

\* Mutant of BoardIsWon: a decided board stays open.
BoardIsWon_Never(g, board) == FALSE

\* The checks of _validateMove that follow the lookup of the piece.
OutOfTurn(g, piece) ==
    \/ (piece = "X" /\ g._moveCount % 2 = 1)
    \/ (piece = "O" /\ g._moveCount % 2 = 0)

OffGrid(move) == move.row < 0 \/ move.row > 2 \/ move.col < 0 \/ move.col > 2

BoardIsWon(g, board) == g._boardWinners[board] # Undefined

OwnSquare(g, piece, move) ==
    g._privateBoards[piece][move.board][move.row][move.col]

\* The piece the move is played with, or the error thrown.
\* Mutant of _validateMove: the position is checked before the turn.
_validateMove_PositionFirst(g, move) ==
    LET piece == IF move.playerID = g.state.x THEN "X"
                 ELSE IF move.playerID = g.state.o THEN "O"
                 ELSE Undefined
    IN  IF g.state.status # "IN_PROGRESS"
        THEN [err |-> GAME_NOT_IN_PROGRESS_MESSAGE, piece |-> Undefined]
        ELSE IF piece = Undefined
        THEN [err |-> PLAYER_NOT_IN_GAME_MESSAGE, piece |-> Undefined]
        ELSE IF OffGrid(move)
        THEN [err |-> BOARD_POSITION_NOT_VALID_MESSAGE, piece |-> piece]
        ELSE IF OutOfTurn(g, piece)
        THEN [err |-> MOVE_NOT_YOUR_TURN_MESSAGE, piece |-> piece]
        ELSE IF BoardIsWon(g, move.board)
        THEN [err |-> BOARD_POSITION_NOT_VALID_MESSAGE, piece |-> piece]
        ELSE IF OwnSquare(g, piece, move)
        THEN [err |-> BOARD_POSITION_NOT_EMPTY_MESSAGE, piece |-> piece]
        ELSE [err |-> OK, piece |-> piece]

_validateMove(g, move) ==
    LET piece == IF move.playerID = g.state.x THEN "X"
                 ELSE IF move.playerID = g.state.o THEN "O"
                 ELSE Undefined
    IN  IF g.state.status # "IN_PROGRESS"
        THEN [err |-> GAME_NOT_IN_PROGRESS_MESSAGE, piece |-> Undefined]
        ELSE IF piece = Undefined
        THEN [err |-> PLAYER_NOT_IN_GAME_MESSAGE, piece |-> Undefined]
        ELSE IF OutOfTurn(g, piece)
        THEN [err |-> MOVE_NOT_YOUR_TURN_MESSAGE, piece |-> piece]
        ELSE IF OffGrid(move)
        THEN [err |-> BOARD_POSITION_NOT_VALID_MESSAGE, piece |-> piece]
        ELSE IF BoardIsWon(g, move.board)
        THEN [err |-> BOARD_POSITION_NOT_VALID_MESSAGE, piece |-> piece]
        ELSE IF OwnSquare(g, piece, move)
        THEN [err |-> BOARD_POSITION_NOT_EMPTY_MESSAGE, piece |-> piece]
        ELSE [err |-> OK, piece |-> piece]

_appendMoveToSubGame(g, board, move) ==
    [g EXCEPT !._games[board].moves = Append(@, move),
              !._games[board].status = "IN_PROGRESS"]

_markBoardAsWon(g, board, winnerID) ==
    [g EXCEPT !._games[board].status = "OVER",
              !._games[board].winner = winnerID]

\* Mutant of _hasThreeInARow: the rows are not looked at.
_hasThreeInARow_NoRows(board) ==
    \/ \E i \in 0..2 : board[0][i] /\ board[1][i] /\ board[2][i]
    \/ board[0][0] /\ board[1][1] /\ board[2][2]
    \/ board[0][2] /\ board[1][1] /\ board[2][0]

_hasThreeInARow(board) ==
    \/ \E i \in 0..2 :
          \/ board[i][0] /\ board[i][1] /\ board[i][2]
          \/ board[0][i] /\ board[1][i] /\ board[2][i]
    \/ board[0][0] /\ board[1][1] /\ board[2][2]
    \/ board[0][2] /\ board[1][1] /\ board[2][0]

\* Mutant of CheckBoardForWin: a board that has a winner is scanned again.
CheckBoardForWin_NoSkip(g, board) ==
    IF _hasThreeInARow(g._privateBoards["X"][board])
    THEN _markBoardAsWon([g EXCEPT !._boardWinners[board] = "X",
                                   !._xScore = @ + 1],
                         board, g.state.x)
    ELSE IF _hasThreeInARow(g._privateBoards["O"][board])
    THEN _markBoardAsWon([g EXCEPT !._boardWinners[board] = "O",
                                   !._oScore = @ + 1],
                         board, g.state.o)
    ELSE g

\* Mutant of CheckBoardForWin: a line of one piece is awarded to the other.
CheckBoardForWin_AwardOther(g, board) ==
    IF g._boardWinners[board] # Undefined
    THEN g
    ELSE IF _hasThreeInARow(g._privateBoards["X"][board])
    THEN _markBoardAsWon([g EXCEPT !._boardWinners[board] = "O",
                                   !._oScore = @ + 1],
                         board, g.state.o)
    ELSE IF _hasThreeInARow(g._privateBoards["O"][board])
    THEN _markBoardAsWon([g EXCEPT !._boardWinners[board] = "X",
                                   !._xScore = @ + 1],
                         board, g.state.x)
    ELSE g

\* One iteration of the loop of _checkForWins.
CheckBoardForWin(g, board) ==
    IF g._boardWinners[board] # Undefined
    THEN g
    ELSE IF _hasThreeInARow(g._privateBoards["X"][board])
    THEN _markBoardAsWon([g EXCEPT !._boardWinners[board] = "X",
                                   !._xScore = @ + 1],
                         board, g.state.x)
    ELSE IF _hasThreeInARow(g._privateBoards["O"][board])
    THEN _markBoardAsWon([g EXCEPT !._boardWinners[board] = "O",
                                   !._oScore = @ + 1],
                         board, g.state.o)
    ELSE g

\* Mutant of _checkForWins: scoreChanged is set for a point of X only.
_checkForWins_PublishXOnly(g) ==
    LET scanned == CheckBoardForWin(
                       CheckBoardForWin(
                           CheckBoardForWin(g, BOARD_IDS[1]), BOARD_IDS[2]),
                       BOARD_IDS[3])
        scoreChanged == scanned._xScore # g._xScore
    IN  IF scoreChanged
        THEN [scanned EXCEPT !.state.xScore = scanned._xScore,
                             !.state.oScore = scanned._oScore]
        ELSE scanned

_checkForWins(g) ==
    LET scanned == CheckBoardForWin(
                       CheckBoardForWin(
                           CheckBoardForWin(g, BOARD_IDS[1]), BOARD_IDS[2]),
                       BOARD_IDS[3])
        scoreChanged == scanned._xScore # g._xScore \/ scanned._oScore # g._oScore
    IN  IF scoreChanged
        THEN [scanned EXCEPT !.state.xScore = scanned._xScore,
                             !.state.oScore = scanned._oScore]
        ELSE scanned

\* Mutant of Scores: each player is given the other piece's score.
Scores_Swapped(g) ==
    LET x == g.state.x
        o == g.state.o
        keys == {p \in {x, o} : Truthy(p)}
    IN  {<<p, IF p = o THEN g._xScore ELSE g._oScore>> : p \in keys}

\* The scores record of the result: each occupied slot mapped to its score.
Scores(g) ==
    LET x == g.state.x
        o == g.state.o
        keys == {p \in {x, o} : Truthy(p)}
    IN  {<<p, IF p = o THEN g._oScore ELSE g._xScore>> : p \in keys}

\* Mutant of hasAvailableMove: a won board with free squares counts as open.
hasAvailableMove_IgnoreWinners(g) ==
    \E board \in BoardID : Len(g._games[board].moves) < 9

hasAvailableMove(g) ==
    \E board \in BoardID :
        /\ g._boardWinners[board] = Undefined
        /\ Len(g._games[board].moves) < 9

\* Mutant of _checkForGameEnding: equal scores make X the winner.
_checkForGameEnding_TieGoesToX(g) ==
    IF g.state.status = "OVER"
    THEN g
    ELSE LET winner == IF g._xScore >= g._oScore THEN g.state.x
                       ELSE g.state.o
             scores == Scores(g)
         IN  IF hasAvailableMove(g)
             THEN g
             ELSE [g EXCEPT !.state.status = "OVER",
                            !.state.winner = winner,
                            !._result = IF scores # {}
                                        THEN [defined |-> TRUE,
                                              scores |-> scores]
                                        ELSE @]

_checkForGameEnding(g) ==
    IF g.state.status = "OVER"
    THEN g
    ELSE LET winner == IF g._xScore > g._oScore THEN g.state.x
                       ELSE IF g._oScore > g._xScore THEN g.state.o
                       ELSE Undefined
             scores == Scores(g)
         IN  IF hasAvailableMove(g)
             THEN g
             ELSE [g EXCEPT !.state.status = "OVER",
                            !.state.winner = winner,
                            !._result = IF scores # {}
                                        THEN [defined |-> TRUE,
                                              scores |-> scores]
                                        ELSE @]

\* The first move of the sub-game at (row, col), as Array.find returns it.
\* Mutant of FindOccupant: the search never finds the square.
FindOccupant_NotFound(moves, row, col) == NoMove

FindOccupant(moves, row, col) ==
    LET hits == {i \in 1..Len(moves) : moves[i].row = row /\ moves[i].col = col}
    IN  IF hits = {}
        THEN NoMove
        ELSE moves[CHOOSE i \in hits : \A j \in hits : i <= j]

\* Mutant of newVisibility: any move onto a hidden square reveals it.
newVisibility_RevealAnyMove(g, existingOccupant, move) ==
    IF ~g.state.publiclyVisible[move.board][move.row][move.col]
    THEN [cloneVisibility(g.state.publiclyVisible)
              EXCEPT ![move.board][move.row][move.col] = TRUE]
    ELSE g.state.publiclyVisible

\* The visibility applyMove publishes: a collision with a square that is
\* not yet public reveals it in a clone, anything else keeps the old object.
newVisibility(g, existingOccupant, move) ==
    IF existingOccupant # NoMove
       /\ ~g.state.publiclyVisible[move.board][move.row][move.col]
    THEN [cloneVisibility(g.state.publiclyVisible)
              EXCEPT ![move.board][move.row][move.col] = TRUE]
    ELSE g.state.publiclyVisible

\* Mutant of applyMove: a collision move is logged but not counted.
applyMove_CollisionNotCounted(g, move) ==
    LET v == _validateMove(g, move)
        piece == v.piece
        board == move.board
        row == move.row
        col == move.col
        existingOccupant == FindOccupant(g._games[board].moves, row, col)
        claimed ==
            IF existingOccupant = NoMove
            THEN _appendMoveToSubGame(
                     [g EXCEPT !._privateBoards[piece][board][row][col] = TRUE,
                               !._moveCount = g._moveCount + 1],
                     board, [gamePiece |-> piece, row |-> row, col |-> col])
            ELSE g
        newMove == [board |-> board, row |-> row, col |-> col,
                    gamePiece |-> piece]
        updatedMoves == Append(g.state.moves, newMove)
        logged == [claimed EXCEPT !.state.moves = updatedMoves,
                                  !.state.publiclyVisible =
                                      newVisibility(g, existingOccupant, move)]
    IN  IF v.err # OK
        THEN Throw(g, v.err)
        ELSE IF existingOccupant # NoMove
                /\ existingOccupant.gamePiece = piece
        THEN Throw(g, BOARD_POSITION_NOT_EMPTY_MESSAGE)
        ELSE Return(_checkForGameEnding(_checkForWins(logged)))

\* Mutant of applyMove: the move count is advanced before the move is
\* validated.
applyMove_CountRejected(g, move) ==
    LET v == _validateMove(g, move)
        piece == v.piece
        board == move.board
        row == move.row
        col == move.col
        existingOccupant == FindOccupant(g._games[board].moves, row, col)
        claimed ==
            IF existingOccupant = NoMove
            THEN _appendMoveToSubGame(
                     [g EXCEPT !._privateBoards[piece][board][row][col] = TRUE],
                     board, [gamePiece |-> piece, row |-> row, col |-> col])
            ELSE g
        newMove == [board |-> board, row |-> row, col |-> col,
                    gamePiece |-> piece]
        updatedMoves == Append(g.state.moves, newMove)
        logged == [claimed EXCEPT !._moveCount = Len(updatedMoves),
                                  !.state.moves = updatedMoves,
                                  !.state.publiclyVisible =
                                      newVisibility(g, existingOccupant, move)]
        counted == [g EXCEPT !._moveCount = Len(g.state.moves) + 1]
    IN  IF v.err # OK
        THEN Throw(counted, v.err)
        ELSE IF existingOccupant # NoMove
                /\ existingOccupant.gamePiece = piece
        THEN Throw(counted, BOARD_POSITION_NOT_EMPTY_MESSAGE)
        ELSE Return(_checkForGameEnding(_checkForWins(logged)))

applyMove(g, move) ==
    LET v == _validateMove(g, move)
        piece == v.piece
        board == move.board
        row == move.row
        col == move.col
        existingOccupant == FindOccupant(g._games[board].moves, row, col)
        claimed ==
            IF existingOccupant = NoMove
            THEN _appendMoveToSubGame(
                     [g EXCEPT !._privateBoards[piece][board][row][col] = TRUE],
                     board, [gamePiece |-> piece, row |-> row, col |-> col])
            ELSE g
        newMove == [board |-> board, row |-> row, col |-> col,
                    gamePiece |-> piece]
        updatedMoves == Append(g.state.moves, newMove)
        logged == [claimed EXCEPT !._moveCount = Len(updatedMoves),
                                  !.state.moves = updatedMoves,
                                  !.state.publiclyVisible =
                                      newVisibility(g, existingOccupant, move)]
    IN  IF v.err # OK
        THEN Throw(g, v.err)
        ELSE IF existingOccupant # NoMove
                /\ existingOccupant.gamePiece = piece
        THEN Throw(g, BOARD_POSITION_NOT_EMPTY_MESSAGE)
        ELSE Return(_checkForGameEnding(_checkForWins(logged)))

(***************************************************************************)
(* Init and the actions                                                     *)
(***************************************************************************)
Init == game = NewGame

Join == \E player \in Players : game' = _join(game, player).game

Leave == \E player \in Players : game' = _leave(game, player).game

\* applyMove with every player and position, while the move log is within
\* MaxMoves of a documented game.
ApplyMove ==
    /\ MovesOffRecord(game.state.moves) < MaxMoves
    /\ \E move \in MoveInputs : game' = applyMove(game, move).game

Next == Join \/ Leave \/ ApplyMove

Spec == Init /\ [][Next]_vars

\* applyMove by every player with the next move of a documented game that
\* the move log is the start of.
ApplyDocumentedMove ==
    \E played \in DocumentedGames, player \in Players :
        LET n == Len(game.state.moves)
        IN  /\ n < Len(played)
            /\ CommonPrefix(game.state.moves, played) = n
            /\ game' = applyMove(game, [playerID |-> player,
                                        board |-> played[n + 1][1],
                                        row |-> played[n + 1][2],
                                        col |-> played[n + 1][3]]).game

NextDocumented == Join \/ Leave \/ ApplyDocumentedMove

\* The documented games, with joins and leaves at any point of them.
SpecDocumented == Init /\ [][NextDocumented]_vars


(***************************************************************************)
(* QuantumTicTacToeAreaController: what a client shows of the game          *)
(*                                                                          *)
(* A controller is the record [ourPlayer, _model, _boards]: the player of   *)
(* the client, the model it received last and the boards it shows.  A model *)
(* is [defined, state, players]: defined is FALSE for an area without a     *)
(* game, and state is then the state of a new game, whose fields are the    *)
(* defaults the getters fall back on.  Every player named by the state is   *)
(* taken to be among the occupants of the area.                             *)
(***************************************************************************)
\* The model of the game that the town sends to the clients: the published
\* state and the players in the game, who are the holders of the slots.
toModel(g) ==
    [defined |-> TRUE,
     state |-> g.state,
     players |-> {g.state.x, g.state.o} \ {Undefined}]

\* The model of an area that has no game.
NoGameModel == [defined |-> FALSE, state |-> NewGame.state, players |-> {}]

createEmptyBoard == [r \in GridIndex |-> [c \in GridIndex |-> Undefined]]

\* The boards of a controller that has received no update.
EmptyBoards == [b \in BoardID |-> createEmptyBoard]

\* The controller as constructed with a model.
NewController(ourPlayer, model) ==
    [ourPlayer |-> ourPlayer, _model |-> model, _boards |-> EmptyBoards]

moveCount(model) == Len(model.state.moves)

whoseTurn(model) ==
    IF model.state.status # "IN_PROGRESS" THEN Undefined
    ELSE IF moveCount(model) % 2 = 0 THEN model.state.x
    ELSE model.state.o

isOurTurn(model, ourPlayer) ==
    whoseTurn(model) # Undefined /\ whoseTurn(model) = ourPlayer

isPlayer(model, ourPlayer) == model.defined /\ ourPlayer \in model.players

\* gamePiece, with Undefined for the error it throws.
gamePiece(model, ourPlayer) ==
    IF model.state.x = ourPlayer THEN "X"
    ELSE IF model.state.o = ourPlayer THEN "O"
    ELSE Undefined

ourPiece(model, ourPlayer) ==
    IF isPlayer(model, ourPlayer) THEN gamePiece(model, ourPlayer)
    ELSE Undefined

\* cellInfo.get(key) of a key that was never set.
NoCellInfo == [firstPiece |-> Undefined, hasOurMove |-> FALSE]

\* Mutant of TrackMoves: the piece kept for a square is that of its latest
\* move.
RECURSIVE TrackMoves_LatestPiece(_, _, _)
TrackMoves_LatestPiece(moves, piece, cellInfo) ==
    IF moves = <<>>
    THEN cellInfo
    ELSE LET move == Head(moves)
             key == <<move.board, move.row, move.col>>
             info == cellInfo[key]
             tracked ==
                 [firstPiece |-> move.gamePiece,
                  hasOurMove |-> \/ info.hasOurMove
                                 \/ piece # Undefined /\ move.gamePiece = piece]
         IN  TrackMoves_LatestPiece(Tail(moves), piece,
                                    [cellInfo EXCEPT ![key] = tracked])

\* The loop over state.moves: the earliest piece of each square and whether
\* our piece played there.
RECURSIVE TrackMoves(_, _, _)
TrackMoves(moves, piece, cellInfo) ==
    IF moves = <<>>
    THEN cellInfo
    ELSE LET move == Head(moves)
             key == <<move.board, move.row, move.col>>
             info == cellInfo[key]
             tracked ==
                 [firstPiece |-> IF info.firstPiece = Undefined
                                 THEN move.gamePiece
                                 ELSE info.firstPiece,
                  hasOurMove |-> \/ info.hasOurMove
                                 \/ piece # Undefined /\ move.gamePiece = piece]
         IN  TrackMoves(Tail(moves), piece, [cellInfo EXCEPT ![key] = tracked])

\* Mutant of cellValue: our own mark is shown before the revealed one.
cellValue_OursFirst(info, isVisible, piece) ==
    IF info.hasOurMove /\ piece # Undefined THEN piece
    ELSE IF isVisible /\ info.firstPiece # Undefined THEN info.firstPiece
    ELSE Undefined

\* Mutant of cellValue: the earliest piece is shown whether or not the
\* square is visible.
cellValue_ShowFirst(info, isVisible, piece) ==
    IF info.firstPiece # Undefined THEN info.firstPiece
    ELSE IF info.hasOurMove /\ piece # Undefined THEN piece
    ELSE Undefined

\* The value shown in one square.
cellValue(info, isVisible, piece) ==
    IF isVisible /\ info.firstPiece # Undefined THEN info.firstPiece
    ELSE IF info.hasOurMove /\ piece # Undefined THEN piece
    ELSE Undefined

\* The boards computed from a model with a game.
updatedBoards(model, ourPlayer) ==
    LET state == model.state
        visibility == state.publiclyVisible
        piece == ourPiece(model, ourPlayer)
        cellInfo == TrackMoves(state.moves, piece,
                               [key \in BoardID \X GridIndex \X GridIndex |->
                                   NoCellInfo])
    IN  [board \in BoardID |-> [row \in GridIndex |-> [col \in GridIndex |->
            cellValue(cellInfo[<<board, row, col>>],
                      visibility[board][row][col], piece)]]]

\* Mutant of Notifications: the status is not looked at for the turn.
Notifications_TurnInAnyStatus(statusInProgress, boardsDiffer, wasOurTurn, isOurTurnNow) ==
    (IF statusInProgress /\ boardsDiffer THEN {"boardChanged"} ELSE {})
        \cup (IF wasOurTurn # isOurTurnNow THEN {"turnChanged"} ELSE {})

\* Mutant of Notifications: the boards are compared as objects, and the new
\* object is never the previous one.
Notifications_BoardsByIdentity(statusInProgress, boardsDiffer, wasOurTurn, isOurTurnNow) ==
    (IF statusInProgress THEN {"boardChanged"} ELSE {})
        \cup (IF statusInProgress /\ wasOurTurn # isOurTurnNow
              THEN {"turnChanged"} ELSE {})

\* The events emitted at the end of _updateFrom.
Notifications(statusInProgress, boardsDiffer, wasOurTurn, isOurTurnNow) ==
    (IF statusInProgress /\ boardsDiffer THEN {"boardChanged"} ELSE {})
        \cup (IF statusInProgress /\ wasOurTurn # isOurTurnNow
              THEN {"turnChanged"} ELSE {})

\* _updateFrom: the controller afterwards and the events it emitted.
_updateFrom(controller, newModel) ==
    LET previousBoards == controller._boards
        wasOurTurn == isOurTurn(controller._model, controller.ourPlayer)
        boards == IF newModel.defined
                  THEN updatedBoards(newModel, controller.ourPlayer)
                  ELSE EmptyBoards
        statusInProgress ==
            newModel.defined /\ newModel.state.status = "IN_PROGRESS"
        isOurTurnNow == isOurTurn(newModel, controller.ourPlayer)
    IN  [controller |-> [controller EXCEPT !._model = newModel,
                                           !._boards = boards],
         emitted |-> Notifications(statusInProgress, previousBoards # boards,
                                   wasOurTurn, isOurTurnNow)]

(***************************************************************************)
(* Vocabulary of the properties                                             *)
(***************************************************************************)
Cells == BoardID \X GridIndex \X GridIndex

\* The move log of g holds a move of `piece` at the cell.
Played(g, piece, cell) ==
    \E i \in 1..Len(g.state.moves) :
        /\ g.state.moves[i].gamePiece = piece
        /\ g.state.moves[i].board = cell[1]
        /\ g.state.moves[i].row = cell[2]
        /\ g.state.moves[i].col = cell[3]

BothSlotsOccupied(g) == g.state.x # Undefined /\ g.state.o # Undefined

\* The player whose turn it is in an IN_PROGRESS game.
TurnHolder(g) ==
    IF Len(g.state.moves) % 2 = 0 THEN g.state.x ELSE g.state.o

\* The piece whose turn it is by the parity of the move log.
TurnPiece(g) == IF Len(g.state.moves) % 2 = 0 THEN "X" ELSE "O"

\* Every board is won or holds 9 recorded sub-board moves.
AllBoardsDone(g) ==
    \A b \in BoardID :
        g._boardWinners[b] # Undefined \/ Len(g._games[b].moves) = 9

BoardsWonBy(g, piece) == {b \in BoardID : g._boardWinners[b] = piece}

\* A step in which the holder of the only occupied slot leaves, which
\* resets the object to a fresh game; every other step is an applyMove, a
\* join or a mid-game leave.
LoneLeaveStep ==
    /\ ~BothSlotsOccupied(game)
    /\ game.state.x # Undefined \/ game.state.o # Undefined
    /\ game'.state.x = Undefined
    /\ game'.state.o = Undefined

\* A step in which one of two seated players leaves.
MidGameLeaveStep ==
    /\ BothSlotsOccupied(game)
    /\ ~BothSlotsOccupied(game')

\* A step in which an applyMove is accepted.
AcceptedMoveStep == Len(game'.state.moves) = Len(game.state.moves) + 1

\* The last entry of a non-empty move log.
LastMove(g) == g.state.moves[Len(g.state.moves)]

\* The player seated with the piece.
Seated(g, piece) == IF piece = "X" THEN g.state.x ELSE g.state.o

\* The eight lines of a grid, as sets of <<row, col>>, and a grid holding one.
Lines ==
    {{<<r, c>> : c \in GridIndex} : r \in GridIndex}
        \cup {{<<r, c>> : r \in GridIndex} : c \in GridIndex}
        \cup {{<<0, 0>>, <<1, 1>>, <<2, 2>>}, {<<0, 2>>, <<1, 1>>, <<2, 0>>}}

HoldsLine(grid) == \E line \in Lines : \A rc \in line : grid[rc[1]][rc[2]]

\* The piece of the earliest move of the log at the cell.
FirstPieceAt(g, cell) ==
    LET at == {i \in 1..Len(g.state.moves) :
                  /\ g.state.moves[i].board = cell[1]
                  /\ g.state.moves[i].row = cell[2]
                  /\ g.state.moves[i].col = cell[3]}
    IN  g.state.moves[CHOOSE i \in at : \A j \in at : i <= j].gamePiece

\* The piece of the slot the player holds, if any.
PieceOf(g, player) ==
    IF g.state.x = player THEN "X"
    ELSE IF g.state.o = player THEN "O"
    ELSE Undefined

\* The boards the client of `viewer` shows once it has received the game.
Shown(g, viewer) ==
    _updateFrom(NewController(viewer, NoGameModel), toModel(g)).controller._boards

\* The moves of the log at publicly visible cells, in the order of the log.
MovesAtVisibleCells(g) ==
    LET AtVisible(move) == g.state.publiclyVisible[move.board][move.row][move.col]
    IN  SelectSeq(g.state.moves, AtVisible)

\* The moves of the piece, in the order of the log.
MovesOfPiece(g, piece) ==
    LET OfPiece(move) == move.gamePiece = piece
    IN  SelectSeq(g.state.moves, OfPiece)

\* The game as far as `viewer` is to know it: a new game but for
\* publiclyVisible, the viewer's slot and a move log that holds the moves at
\* publicly visible cells and the viewer's own moves and no other move.  It
\* is built from these alone, so two games that agree on them are the same
\* game here.
KnownTo(g, viewer) ==
    LET piece == PieceOf(g, viewer)
    IN  [NewGame EXCEPT
            !.state.publiclyVisible = g.state.publiclyVisible,
            !.state.x = IF piece = "X" THEN viewer ELSE Undefined,
            !.state.o = IF piece = "O" THEN viewer ELSE Undefined,
            !.state.moves = MovesAtVisibleCells(g) \o MovesOfPiece(g, piece)]

\* The controllers of `viewer` that the next update can find: one that has
\* received the game g, one constructed with g and one constructed in an
\* area without a game.
ControllersAt(g, viewer) ==
    {_updateFrom(NewController(viewer, NoGameModel), toModel(g)).controller,
     NewController(viewer, toModel(g)),
     NewController(viewer, NoGameModel)}

\* It is the turn of `viewer` in the game the model carries.
IsTurnOf(model, viewer) ==
    /\ model.defined
    /\ model.state.status = "IN_PROGRESS"
    /\ viewer = (IF Len(model.state.moves) % 2 = 0 THEN model.state.x
                 ELSE model.state.o)

\* The model of g with the last move taken off the log and the game in
\* progress: what the clients held before that move, but for the scores and
\* the visibility.
BeforeLastMove(g) ==
    [toModel(g) EXCEPT
        !.state.moves = SubSeq(g.state.moves, 1, Len(g.state.moves) - 1),
        !.state.status = "IN_PROGRESS"]

\* The game without its move log and move counter.
ButForTheLog(g) == [g EXCEPT !.state.moves = <<>>, !._moveCount = 0]

\* The move is accepted in g and changes nothing but the log and the counter.
IdleMove(g, move) ==
    /\ applyMove(g, move).err = OK
    /\ ButForTheLog(applyMove(g, move).game) = ButForTheLog(g)

(***************************************************************************)
(* Properties                                                               *)
(***************************************************************************)
\* C1: once the status is OVER, no later step of the same game object makes
\* it IN_PROGRESS.  Stated for one step, which the claim implies.
C1_NoRestartAfterOver ==
    [][game.state.status = "OVER" => game'.state.status # "IN_PROGRESS"]_vars

\* C2: once the status is OVER, every later join, leave or applyMove leaves
\* the status OVER and the winner, the move log and the scores unchanged.
C2_OverIsPermanent ==
    [][game.state.status = "OVER" =>
          /\ game'.state.status = "OVER"
          /\ game'.state.winner = game.state.winner
          /\ game'.state.moves = game.state.moves
          /\ game'.state.xScore = game.state.xScore
          /\ game'.state.oScore = game.state.oScore]_vars

\* C3: the move log never holds two entries with the same piece, board, row
\* and col (a second move of a piece on a cell is rejected).
C3_NoRepeatedMove ==
    \A i, j \in 1..Len(game.state.moves) :
        i < j => game.state.moves[i] # game.state.moves[j]

\* C4: a cell is publicly visible if and only if the move log holds a move
\* of X and a move of O at that cell.
C4_VisibleIffCollision ==
    \A cell \in Cells :
        game.state.publiclyVisible[cell[1]][cell[2]][cell[3]]
            <=> (Played(game, "X", cell) /\ Played(game, "O", cell))

C4_Witness ==
    /\ \E cell \in Cells : game.state.publiclyVisible[cell[1]][cell[2]][cell[3]]
    /\ \E cell \in Cells :
          /\ Played(game, "X", cell)
          /\ ~Played(game, "O", cell)
          /\ ~game.state.publiclyVisible[cell[1]][cell[2]][cell[3]]

\* C5: a cell is not visible before both pieces have played it, and no
\* applyMove, join or mid-game leave makes a visible cell hidden again.
C5_VisibilityMonotonic ==
    /\ [](\A cell \in Cells :
            game.state.publiclyVisible[cell[1]][cell[2]][cell[3]] =>
                Played(game, "X", cell) /\ Played(game, "O", cell))
    /\ [][~LoneLeaveStep =>
            \A cell \in Cells :
                game.state.publiclyVisible[cell[1]][cell[2]][cell[3]] =>
                    game'.state.publiclyVisible[cell[1]][cell[2]][cell[3]]]_vars

\* Two revealed cells, the later reveal by the last move of the log.
C5_Witness ==
    /\ game.state.status = "IN_PROGRESS"
    /\ Len(game.state.moves) > 0
    /\ LET last == game.state.moves[Len(game.state.moves)]
       IN  /\ game.state.publiclyVisible[last.board][last.row][last.col]
           /\ \E cell \in Cells :
                 /\ cell # <<last.board, last.row, last.col>>
                 /\ game.state.publiclyVisible[cell[1]][cell[2]][cell[3]]

\* C6: moves are accepted from X at an even log length and from O at an odd
\* one, so the i-th entry of the log (0-based) is X's for even i and O's for
\* odd i.
C6_TurnsAlternate ==
    \A i \in 1..Len(game.state.moves) :
        game.state.moves[i].gamePiece = (IF (i - 1) % 2 = 0 THEN "X" ELSE "O")

C6_Witness ==
    /\ game.state.status = "IN_PROGRESS"
    /\ Len(game.state.moves) >= 3
    /\ \E i, j \in 1..Len(game.state.moves) :
          game.state.moves[i].board # game.state.moves[j].board

\* C7: a board's winner stays as assigned through every later applyMove,
\* join and mid-game leave, and every applyMove on that board by the player
\* whose turn it is fails with InvalidPosition, whatever the cell holds.
C7_WonBoardIsClosed ==
    /\ [](\A move \in MoveInputs :
            (/\ game.state.status = "IN_PROGRESS"
             /\ game._boardWinners[move.board] # Undefined
             /\ move.playerID = TurnHolder(game)) =>
                /\ applyMove(game, move).err = BOARD_POSITION_NOT_VALID_MESSAGE
                /\ applyMove(game, move).game = game)
    /\ [][~LoneLeaveStep =>
            \A b \in BoardID :
                game._boardWinners[b] # Undefined =>
                    /\ game'._boardWinners[b] = game._boardWinners[b]
                    /\ game'._games[b].moves = game._games[b].moves]_vars

\* A running game with a won board, the player to move holding a square of
\* that board and not holding another one.
C7_Witness ==
    /\ game.state.status = "IN_PROGRESS"
    /\ \E b \in BoardID, piece \in PlayerPiece :
          /\ game._boardWinners[b] # Undefined
          /\ piece = (IF Len(game.state.moves) % 2 = 0 THEN "X" ELSE "O")
          /\ \E r, c \in GridIndex : game._privateBoards[piece][b][r][c]
          /\ \E r, c \in GridIndex :
                /\ ~game._privateBoards["X"][b][r][c]
                /\ ~game._privateBoards["O"][b][r][c]

\* C8: xScore + oScore <= 3, each score is the number of boards whose
\* winner is that piece, and the published scores equal the counters.
C8_ScoresCountWonBoards ==
    /\ game._xScore + game._oScore <= 3
    /\ game._xScore = Cardinality(BoardsWonBy(game, "X"))
    /\ game._oScore = Cardinality(BoardsWonBy(game, "O"))
    /\ game.state.xScore = game._xScore
    /\ game.state.oScore = game._oScore

C8_Witness ==
    /\ game._xScore = 2
    /\ game._oScore = 1
    /\ game.state.xScore = 2
    /\ game.state.oScore = 1

\* C9: across an applyMove, a join or a mid-game leave no score decreases,
\* and a score grows by exactly the boards that go from no winner to that
\* piece in the step, which is at most one.
C9_ScoresMonotonic ==
    [][~LoneLeaveStep =>
          LET newX == {b \in BoardID : /\ game._boardWinners[b] = Undefined
                                       /\ game'._boardWinners[b] = "X"}
              newO == {b \in BoardID : /\ game._boardWinners[b] = Undefined
                                       /\ game'._boardWinners[b] = "O"}
          IN  /\ game'._xScore - game._xScore = Cardinality(newX)
              /\ game'._oScore - game._oScore = Cardinality(newO)
              /\ game'.state.xScore - game.state.xScore = Cardinality(newX)
              /\ game'.state.oScore - game.state.oScore = Cardinality(newO)
              /\ Cardinality(newX) + Cardinality(newO) <= 1]_vars

\* Both pieces have scored, O by the last move of the log.
C9_Witness ==
    /\ game._xScore >= 1
    /\ game._oScore >= 1
    /\ Len(game.state.moves) > 0
    /\ LET last == game.state.moves[Len(game.state.moves)]
       IN  last.gamePiece = "O" /\ game._boardWinners[last.board] = "O"

\* C10 as claimed: the status is OVER exactly when every board is won or
\* holds 9 recorded moves.
C10_OverIffBoardsDone ==
    game.state.status = "OVER" <=> AllBoardsDone(game)

\* C10 as amended: an accepted applyMove leaves the status OVER exactly when
\* every board is then won or holds 9 recorded moves, and a mid-game leave
\* leaves it OVER whatever the boards hold.
C10_MoveEndsGameIffBoardsDone ==
    [][/\ AcceptedMoveStep =>
            (game'.state.status = "OVER" <=> AllBoardsDone(game'))
       /\ MidGameLeaveStep => game'.state.status = "OVER"]_vars

\* A game ended by its last move with both players seated, one board full
\* without a winner.
C10_Witness ==
    /\ game.state.status = "OVER"
    /\ BothSlotsOccupied(game)
    /\ AllBoardsDone(game)
    /\ game._result.defined
    /\ \E b \in BoardID : game._boardWinners[b] = Undefined

\* C11: when an accepted applyMove ends the game, the winner is the X player
\* if xScore > oScore, the O player if oScore > xScore, and undefined if the
\* scores are equal.
C11_WinnerHasHigherScore ==
    [][(AcceptedMoveStep /\ game'.state.status = "OVER") =>
          game'.state.winner =
              (IF game'.state.xScore > game'.state.oScore THEN game'.state.x
               ELSE IF game'.state.oScore > game'.state.xScore
               THEN game'.state.o
               ELSE Undefined)]_vars

\* A game ended in a draw by its last move: equal scores and no winner.
C11_Witness ==
    /\ game.state.status = "OVER"
    /\ BothSlotsOccupied(game)
    /\ AllBoardsDone(game)
    /\ game._result.defined
    /\ game.state.xScore = 1
    /\ game.state.oScore = 1
    /\ game.state.winner = Undefined

\* C12: when an accepted applyMove ends the game, a result record exists and
\* maps the X player to xScore and the O player to oScore, with no other
\* entry.
C12_ResultRecordsScores ==
    [][(AcceptedMoveStep /\ game'.state.status = "OVER") =>
          /\ game'._result.defined
          /\ game'._result.scores =
                 {<<game'.state.x, game'.state.xScore>>,
                  <<game'.state.o, game'.state.oScore>>}]_vars

\* A game ended 2-1 by its last move, with the result recorded.
C12_Witness ==
    /\ game.state.status = "OVER"
    /\ BothSlotsOccupied(game)
    /\ AllBoardsDone(game)
    /\ game._result.scores = {<<game.state.x, 2>>, <<game.state.o, 1>>}

\* C13: when an accepted move leaves the mover's hidden occupancy of a board
\* that had no winner with a full row, column or diagonal, the board's
\* winner is the mover's piece, the mover's score has grown by exactly 1 and
\* the sub-board is OVER with the mover as winner.
C13_LineWinsBoard ==
    [][AcceptedMoveStep =>
          LET piece == LastMove(game').gamePiece
              b == LastMove(game').board
              before == IF piece = "X" THEN game._xScore ELSE game._oScore
              after == IF piece = "X" THEN game'._xScore ELSE game'._oScore
              published == IF piece = "X" THEN game'.state.xScore
                           ELSE game'.state.oScore
          IN  (/\ game._boardWinners[b] = Undefined
               /\ HoldsLine(game'._privateBoards[piece][b])) =>
                  /\ game'._boardWinners[b] = piece
                  /\ after = before + 1
                  /\ published = before + 1
                  /\ game'._games[b].status = "OVER"
                  /\ game'._games[b].winner = Seated(game, piece)]_vars

\* X has just won a board with a line through a cell that O collided on.
C13_Witness ==
    /\ Len(game.state.moves) > 0
    /\ LET b == LastMove(game).board
       IN  /\ LastMove(game).gamePiece = "X"
           /\ game._boardWinners[b] = "X"
           /\ game._games[b].status = "OVER"
           /\ game._games[b].winner = game.state.x
           /\ \E line \in Lines :
                 /\ \A rc \in line : game._privateBoards["X"][b][rc[1]][rc[2]]
                 /\ <<LastMove(game).row, LastMove(game).col>> \in line
                 /\ \E rc \in line :
                       game.state.publiclyVisible[b][rc[1]][rc[2]]

\* C14: an accepted applyMove changes at most the mover's score, by at most
\* 1, and gives a winner to at most the board it targets, which is then the
\* mover's piece; the other piece's score and boards are unchanged.
C14_OnlyMoverScores ==
    [][AcceptedMoveStep =>
          LET piece == LastMove(game').gamePiece
              b == LastMove(game').board
          IN  /\ piece = "X" =>
                    /\ game'._oScore = game._oScore
                    /\ game'.state.oScore = game.state.oScore
                    /\ game'._xScore - game._xScore \in {0, 1}
              /\ piece = "O" =>
                    /\ game'._xScore = game._xScore
                    /\ game'.state.xScore = game.state.xScore
                    /\ game'._oScore - game._oScore \in {0, 1}
              /\ \A other \in BoardID \ {b} :
                    game'._boardWinners[other] = game._boardWinners[other]
              /\ game'._boardWinners[b] \in {game._boardWinners[b], piece}]_vars

\* X has just won a board after O had scored, a third board being undecided
\* or decided earlier.
C14_Witness ==
    /\ Len(game.state.moves) > 0
    /\ LastMove(game).gamePiece = "X"
    /\ game._boardWinners[LastMove(game).board] = "X"
    /\ game._oScore = 1
    /\ game._xScore = 2
    /\ game.state.status = "OVER"

\* Every call that is rejected in the current state returns the game as it
\* was.
RejectedCallsChangeNothing ==
    /\ \A player \in Players :
          LET joined == _join(game, player)
              left == _leave(game, player)
          IN  /\ joined.err # OK => joined.game = game
              /\ left.err # OK => left.game = game
    /\ \A move \in MoveInputs :
          LET moved == applyMove(game, move)
          IN  moved.err # OK => moved.game = game

\* C15: every rejected command is a no-op: when join, leave or applyMove
\* fails, every field of the game (move log, move count, scores, visibility,
\* hidden occupancy, board winners, slots, status, winner, result) is as it
\* was before the call.
C15_RejectedIsNoOp == []RejectedCallsChangeNothing

\* A game in progress with a won board, in which a join, a leave and moves
\* of the player in turn and of the other player are rejected.
C15_Witness ==
    /\ game.state.status = "IN_PROGRESS"
    /\ BothSlotsOccupied(game)
    /\ game._boardWinners["A"] # Undefined
    /\ game.state.publiclyVisible["A"][0][0]
    /\ \E player \in Players : _join(game, player).err = GAME_FULL_MESSAGE
    /\ \E player \in Players : _leave(game, player).err # OK
    /\ \E moveA, moveB \in MoveInputs :
          /\ applyMove(game, moveA).err = BOARD_POSITION_NOT_VALID_MESSAGE
          /\ applyMove(game, moveB).err = MOVE_NOT_YOUR_TURN_MESSAGE

\* The error the checks of applyMove are to report, in their order.
ExpectedMoveError(g, move) ==
    LET piece == IF move.playerID = g.state.x THEN "X" ELSE "O"
        inTurn == IF Len(g.state.moves) % 2 = 0 THEN "X" ELSE "O"
    IN  IF g.state.status # "IN_PROGRESS" THEN "GameNotInProgress"
        ELSE IF move.playerID \notin {g.state.x, g.state.o}
        THEN "PlayerNotInGame"
        ELSE IF piece # inTurn THEN "NotYourTurn"
        ELSE IF move.row \notin 0..2 \/ move.col \notin 0..2
        THEN "InvalidPosition"
        ELSE IF g._boardWinners[move.board] \in PlayerPiece
        THEN "InvalidPosition"
        ELSE IF g._privateBoards[piece][move.board][move.row][move.col]
        THEN "PositionNotEmpty"
        ELSE OK

\* C16: applyMove reports the first failing check in the order status,
\* membership, turn, position on the grid, board not won, square not the
\* mover's own; a move that passes the six checks is accepted.
C16_FirstFailingCheck ==
    [](\A move \in MoveInputs :
          LET moved == applyMove(game, move)
          IN  /\ moved.err = ExpectedMoveError(game, move)
              /\ moved.err = OK =>
                     Len(moved.game.state.moves) = Len(game.state.moves) + 1)

\* A game in progress with a won board in which every kind of rejection and
\* an acceptance happen, some moves failing more than one check.
C16_Witness ==
    /\ game.state.status = "IN_PROGRESS"
    /\ \E b \in BoardID : game._boardWinners[b] # Undefined
    /\ \A e \in {PLAYER_NOT_IN_GAME_MESSAGE, MOVE_NOT_YOUR_TURN_MESSAGE,
                 BOARD_POSITION_NOT_VALID_MESSAGE,
                 BOARD_POSITION_NOT_EMPTY_MESSAGE, OK} :
          \E move \in MoveInputs : applyMove(game, move).err = e
    /\ \E move \in MoveInputs :
          /\ applyMove(game, move).err = MOVE_NOT_YOUR_TURN_MESSAGE
          /\ OffGrid(move)
    /\ \E move \in MoveInputs :
          /\ applyMove(game, move).err = BOARD_POSITION_NOT_VALID_MESSAGE
          /\ ~OffGrid(move)
          /\ game._privateBoards[TurnPiece(game)][move.board][move.row][move.col]

\* C17: a join that fills the empty X slot leaves the status
\* WAITING_TO_START; a join that fills the empty O slot (X occupied) leaves
\* the status IN_PROGRESS and no winner.
C17_JoinSetsStatus ==
    [][/\ (game.state.x = Undefined /\ game'.state.x # Undefined) =>
              game'.state.status = "WAITING_TO_START"
       /\ (game.state.o = Undefined /\ game'.state.o # Undefined) =>
              /\ game.state.x # Undefined
              /\ game'.state.x = game.state.x
              /\ game'.state.status = "IN_PROGRESS"
              /\ game'.state.winner = Undefined]_vars

\* C18: join fails with AlreadyInGame exactly when the player holds a slot,
\* with GameFull exactly when both slots are held by other players, and
\* succeeds otherwise; leave fails with PlayerNotInGame exactly when the
\* player holds neither slot, and succeeds otherwise.
C18_JoinLeaveErrors ==
    \A player \in Players :
        LET holds == player \in {game.state.x, game.state.o}
        IN  /\ _join(game, player).err =
                   (IF holds THEN "AlreadyInGame"
                    ELSE IF BothSlotsOccupied(game) THEN "GameFull"
                    ELSE OK)
            /\ _leave(game, player).err =
                   (IF holds THEN OK ELSE "PlayerNotInGame")

\* Both slots held: the holders are refused as already in, the third player
\* is refused a seat and refused a leave.
C18_Witness ==
    /\ BothSlotsOccupied(game)
    /\ \E player \in Players :
          /\ _join(game, player).err = GAME_FULL_MESSAGE
          /\ _leave(game, player).err = PLAYER_NOT_IN_GAME_MESSAGE
    /\ _join(game, game.state.x).err = PLAYER_ALREADY_IN_GAME_MESSAGE
    /\ _join(game, game.state.o).err = PLAYER_ALREADY_IN_GAME_MESSAGE
    /\ _leave(game, game.state.o).err = OK

\* C19: a leave while both slots are occupied leaves the status OVER, the
\* remaining player as winner, the leaver's slot empty and the remaining
\* player's slot as it was.
C19_MidGameLeave ==
    [][MidGameLeaveStep =>
          /\ game'.state.status = "OVER"
          /\ \/ /\ game'.state.x = Undefined
                /\ game'.state.o = game.state.o
                /\ game'.state.winner = game.state.o
             \/ /\ game'.state.o = Undefined
                /\ game'.state.x = game.state.x
                /\ game'.state.winner = game.state.x]_vars

\* X has left a game in progress after some moves: O remains and has won.
C19_Witness ==
    /\ game.state.status = "OVER"
    /\ game.state.x = Undefined
    /\ game.state.o # Undefined
    /\ game.state.winner = game.state.o
    /\ Len(game.state.moves) > 0
    /\ ~AllBoardsDone(game)
    /\ ~game._result.defined

\* C20: a leave by the holder of the only occupied slot resets the whole
\* game: status WAITING_TO_START, both slots empty, empty move log, move
\* count 0, scores 0, no visible cell, no hidden occupancy, no board winner,
\* no winner and no result.
C20_LoneLeaveResets ==
    [][LoneLeaveStep =>
          /\ game'.state.status = "WAITING_TO_START"
          /\ game'.state.x = Undefined
          /\ game'.state.o = Undefined
          /\ game'.state.moves = <<>>
          /\ game'._moveCount = 0
          /\ game'.state.xScore = 0
          /\ game'.state.oScore = 0
          /\ game'._xScore = 0
          /\ game'._oScore = 0
          /\ \A cell \in Cells :
                /\ ~game'.state.publiclyVisible[cell[1]][cell[2]][cell[3]]
                /\ \A piece \in PlayerPiece :
                      ~game'._privateBoards[piece][cell[1]][cell[2]][cell[3]]
          /\ \A b \in BoardID : game'._boardWinners[b] = Undefined
          /\ game'.state.winner = Undefined
          /\ ~game'._result.defined]_vars

\* The last player of a game that was played (moves, a score, a visible
\* cell, a winner) leaves, and the leave resets it.
C20_Witness ==
    /\ ~BothSlotsOccupied(game)
    /\ game.state.status = "OVER"
    /\ game.state.winner # Undefined
    /\ Len(game.state.moves) > 0
    /\ game._xScore + game._oScore > 0
    /\ \E cell \in Cells : game.state.publiclyVisible[cell[1]][cell[2]][cell[3]]
    /\ \E player \in Players :
          /\ _leave(game, player).err = OK
          /\ _leave(game, player).game.state.status = "WAITING_TO_START"
          /\ _leave(game, player).game.state.moves = <<>>

\* Every cell of every viewer's boards shows what the visibility and the move
\* log say it is to show.
ShowsTheMarks ==
    \A viewer \in Players :
        LET boards == Shown(game, viewer)
            piece == PieceOf(game, viewer)
        IN  \A cell \in Cells :
                boards[cell[1]][cell[2]][cell[3]] =
                    (IF game.state.publiclyVisible[cell[1]][cell[2]][cell[3]]
                     THEN FirstPieceAt(game, cell)
                     ELSE IF piece # Undefined /\ Played(game, piece, cell)
                     THEN piece
                     ELSE Undefined)

\* C21: in every reachable state, for every viewer and cell, the projected
\* board shows at a publicly visible cell the piece of the earliest move of
\* the log at that cell, at a cell that is not visible and holds a move of
\* the viewer's own piece that piece, and nothing at any other cell.
C21_ProjectedMarks == []ShowsTheMarks

\* O's client shows X on a revealed cell that O collided on, O on a hidden
\* cell of its own and nothing on a hidden cell of X, and the client of a
\* player outside the game shows the revealed cell alone.
C21_Witness ==
    /\ BothSlotsOccupied(game)
    /\ \E seen, own, hidden \in Cells :
          /\ game.state.publiclyVisible[seen[1]][seen[2]][seen[3]]
          /\ Played(game, "O", seen)
          /\ Shown(game, game.state.o)[seen[1]][seen[2]][seen[3]] = "X"
          /\ Shown(game, game.state.o)[own[1]][own[2]][own[3]] = "O"
          /\ ~game.state.publiclyVisible[own[1]][own[2]][own[3]]
          /\ Played(game, "X", hidden)
          /\ Shown(game, game.state.o)[hidden[1]][hidden[2]][hidden[3]]
                 = Undefined
          /\ \E viewer \in Players \ {game.state.x, game.state.o} :
                /\ Shown(game, viewer)[seen[1]][seen[2]][seen[3]] = "X"
                /\ Shown(game, viewer)[own[1]][own[2]][own[3]] = Undefined

\* What a viewer is shown is what the part of the game it is to know shows,
\* and a viewer outside the game is shown marks on visible cells only.
OpponentSecretsNotShown ==
    \A viewer \in Players :
        LET boards == Shown(game, viewer)
        IN  /\ boards = Shown(KnownTo(game, viewer), viewer)
            /\ PieceOf(game, viewer) = Undefined =>
                   \A cell \in Cells :
                       boards[cell[1]][cell[2]][cell[3]] # Undefined =>
                           game.state.publiclyVisible[cell[1]][cell[2]][cell[3]]

\* C22: the opponent's unrevealed marks do not influence what a viewer sees:
\* in every reachable state the boards shown to a viewer holding a piece are
\* those computed from publiclyVisible, the viewer's own moves and the moves
\* at publicly visible cells (each in the order of the log) alone, so two
\* reachable states that agree on these show that viewer the same boards;
\* a viewer who is not a player sees marks only on publicly visible cells.
C22_NoInfluenceOfHiddenMarks == []OpponentSecretsNotShown

\* X's client shows a revealed cell and a hidden mark of X while O holds
\* hidden cells, whose moves are not in what X is to know.
C22_Witness ==
    /\ BothSlotsOccupied(game)
    /\ Len(KnownTo(game, game.state.x).state.moves) < Len(game.state.moves)
    /\ \E seen, own, secret \in Cells :
          /\ game.state.publiclyVisible[seen[1]][seen[2]][seen[3]]
          /\ Shown(game, game.state.x)[seen[1]][seen[2]][seen[3]] # Undefined
          /\ ~game.state.publiclyVisible[own[1]][own[2]][own[3]]
          /\ Shown(game, game.state.x)[own[1]][own[2]][own[3]] = "X"
          /\ ~game.state.publiclyVisible[secret[1]][secret[2]][secret[3]]
          /\ game._privateBoards["O"][secret[1]][secret[2]][secret[3]]
          /\ Shown(game, game.state.x)[secret[1]][secret[2]][secret[3]]
                 = Undefined

\* C23: an update whose new status is WAITING_TO_START or OVER raises neither
\* 'board changed' nor 'turn changed', whatever the controller held before,
\* the update that carries the move that ends the game included.
C23_NotificationsOnlyInProgress ==
    [][(game' # game /\ game'.state.status # "IN_PROGRESS") =>
          \A viewer \in Players :
              \A controller \in ControllersAt(game, viewer) :
                  _updateFrom(controller, toModel(game')).emitted = {}]_vars

\* The game has ended by its last move; the client of the player who made
\* it held the game in progress with its turn, shows other boards after the
\* update and has emitted nothing.
C23_Witness ==
    /\ game.state.status = "OVER"
    /\ BothSlotsOccupied(game)
    /\ AllBoardsDone(game)
    /\ game._result.defined
    /\ \E viewer \in Players :
          LET before == _updateFrom(NewController(viewer, NoGameModel),
                                    BeforeLastMove(game)).controller
              update == _updateFrom(before, toModel(game))
          IN  /\ isOurTurn(before._model, viewer)
              /\ ~isOurTurn(update.controller._model, viewer)
              /\ update.controller._boards # before._boards
              /\ update.emitted = {}

\* C24: on an update whose new status is IN_PROGRESS, 'board changed' is
\* raised if and only if the boards shown after differ from the boards shown
\* before, and 'turn changed' if and only if it is the viewer's turn after
\* and was not before or the reverse; the same model received again raises
\* nothing.
C24_NotificationsOnChange ==
    [][(game' # game /\ game'.state.status = "IN_PROGRESS") =>
          \A viewer \in Players :
              \A controller \in ControllersAt(game, viewer) :
                  LET update == _updateFrom(controller, toModel(game'))
                  IN  /\ "boardChanged" \in update.emitted
                             <=> Shown(game', viewer) # controller._boards
                      /\ "turnChanged" \in update.emitted
                             <=> (IsTurnOf(toModel(game'), viewer)
                                      # IsTurnOf(controller._model, viewer))
                      /\ update.emitted \subseteq {"boardChanged", "turnChanged"}
                      /\ _updateFrom(update.controller, toModel(game')).emitted
                             = {}]_vars

\* O has just claimed a hidden cell: the client of X is told of the turn
\* alone, the client of O of the turn and the board, a client outside the
\* game of nothing, and none of anything when the model comes again.
C24_Witness ==
    /\ game.state.status = "IN_PROGRESS"
    /\ Len(game.state.moves) > 0
    /\ LastMove(game).gamePiece = "O"
    /\ ~game.state.publiclyVisible[LastMove(game).board][LastMove(game).row][LastMove(game).col]
    /\ \A viewer \in Players :
          LET before == _updateFrom(NewController(viewer, NoGameModel),
                                    BeforeLastMove(game)).controller
              update == _updateFrom(before, toModel(game))
          IN  /\ update.emitted =
                     (IF viewer = game.state.x THEN {"turnChanged"}
                      ELSE IF viewer = game.state.o
                      THEN {"boardChanged", "turnChanged"}
                      ELSE {})
              /\ _updateFrom(update.controller, toModel(game)).emitted = {}

\* C25: the move counter always equals the length of the move log; every
\* accepted applyMove, a collision move included, appends exactly one entry
\* to the log and adds exactly 1 to the counter; no other step but the reset
\* by a lone leave changes the log or the counter.
C25_CounterIsLogLength ==
    [][/\ game._moveCount = Len(game.state.moves)
       /\ game'._moveCount = Len(game'.state.moves)
       /\ AcceptedMoveStep =>
              /\ game'.state.moves = Append(game.state.moves, LastMove(game'))
              /\ game'._moveCount = game._moveCount + 1
       /\ (~AcceptedMoveStep /\ ~LoneLeaveStep) =>
              /\ game'.state.moves = game.state.moves
              /\ game'._moveCount = game._moveCount]_vars

\* The last move was a collision on a cell that X holds, after moves on two
\* boards: it is in the log and counted.
C25_Witness ==
    /\ Len(game.state.moves) >= 4
    /\ game._moveCount = Len(game.state.moves)
    /\ LastMove(game).gamePiece = "O"
    /\ game._privateBoards["X"][LastMove(game).board][LastMove(game).row][LastMove(game).col]
    /\ \E i \in 1..Len(game.state.moves) :
          game.state.moves[i].board # LastMove(game).board

\* C26: in every reachable state the hidden occupancies of X and O are
\* disjoint: no cell is marked in both pieces' private grids.
C26_HiddenOccupancyDisjoint ==
    \A cell \in Cells :
        ~(/\ game._privateBoards["X"][cell[1]][cell[2]][cell[3]]
          /\ game._privateBoards["O"][cell[1]][cell[2]][cell[3]])

\* Both pieces have played a cell, which is revealed and stays with the
\* piece that played it first.
C26_Witness ==
    \E cell \in Cells :
        /\ Played(game, "X", cell)
        /\ Played(game, "O", cell)
        /\ game.state.publiclyVisible[cell[1]][cell[2]][cell[3]]
        /\ FirstPieceAt(game, cell) = "O"
        /\ game._privateBoards["O"][cell[1]][cell[2]][cell[3]]
        /\ ~game._privateBoards["X"][cell[1]][cell[2]][cell[3]]

\* C27: no stuck game: in every reachable state with status IN_PROGRESS the
\* player whose turn it is has a (board, row, col) for which applyMove is
\* accepted.
C27_NoStuckGame ==
    game.state.status = "IN_PROGRESS" =>
        \E move \in MoveInputs :
            /\ move.playerID = TurnHolder(game)
            /\ applyMove(game, move).err = OK

\* C28: every game terminates: from an IN_PROGRESS state, players who keep
\* submitting accepted moves in turn reach status OVER, i.e. there is no
\* infinite sequence of accepted moves.  Stated as what the claim implies for
\* one round: no reachable state has an accepted move of each player in turn
\* after which the game is what it was but for the log and its counter, since
\* applyMove reads of these two only the parity of the counter and would
\* accept the same round again without end.
C28_NoEndlessPlay ==
    ~(/\ game.state.status = "IN_PROGRESS"
      /\ \E first \in MoveInputs :
            /\ first.playerID = TurnHolder(game)
            /\ IdleMove(game, first)
            /\ \E second \in MoveInputs :
                  /\ second.playerID # first.playerID
                  /\ IdleMove(applyMove(game, first).game, second)
                  /\ IdleMove(applyMove(applyMove(game, first).game,
                                        second).game, first))

\* C29: slot/status consistency: the X and O slots never hold the same
\* player; status IN_PROGRESS implies both slots are occupied; status
\* WAITING_TO_START implies the O slot is empty, the move log is empty, both
\* scores are 0 and no cell is visible.
C29_SlotsAndStatus ==
    /\ game.state.x # Undefined => game.state.x # game.state.o
    /\ game.state.status = "IN_PROGRESS" =>
          /\ game.state.x # Undefined
          /\ game.state.o # Undefined
    /\ game.state.status = "WAITING_TO_START" =>
          /\ game.state.o = Undefined
          /\ game.state.moves = <<>>
          /\ game.state.xScore = 0
          /\ game.state.oScore = 0
          /\ game._xScore = 0
          /\ game._oScore = 0
          /\ \A cell \in Cells :
                ~game.state.publiclyVisible[cell[1]][cell[2]][cell[3]]

\* A first player has joined and waits in the X slot: the next join seats
\* another player as O and starts the game.
C29_Witness ==
    /\ game.state.status = "WAITING_TO_START"
    /\ game.state.x # Undefined
    /\ game.state.o = Undefined
    /\ \E player \in Players :
          /\ _join(game, player).err = OK
          /\ _join(game, player).game.state.status = "IN_PROGRESS"
          /\ _join(game, player).game.state.o = player
          /\ _join(game, player).game.state.x = game.state.x

\* C30: while a winner is defined the status is OVER.
C30_WinnerOnlyWhenOver ==
    game.state.winner # Undefined => game.state.status = "OVER"

\* X left a game in progress, O won by it, and another player has taken the
\* X slot: the winner stands and the status is still OVER; the join that
\* starts a game again, after a leave, clears the winner.
C30_Witness ==
    /\ game.state.winner # Undefined
    /\ game.state.winner = game.state.o
    /\ game.state.status = "OVER"
    /\ BothSlotsOccupied(game)
    /\ ~AllBoardsDone(game)
    /\ LET left == _leave(game, game.state.o).game
       IN  \E player \in Players :
              /\ _join(left, player).err = OK
              /\ _join(left, player).game.state.status = "IN_PROGRESS"
              /\ _join(left, player).game.state.winner = Undefined

\* The mark every viewer is shown at a cell belongs to the piece that holds
\* the cell in the engine's hidden occupancy: at a visible cell a mark is
\* shown, at any other cell a mark shown is of the viewer's own piece.
ShownMarksAreHeld ==
    \A viewer \in Players :
        LET boards == Shown(game, viewer)
        IN  \A cell \in Cells :
                LET mark == boards[cell[1]][cell[2]][cell[3]]
                    isVisible == game.state.publiclyVisible[cell[1]][cell[2]][cell[3]]
                IN  /\ isVisible => mark # Undefined
                    /\ mark # Undefined =>
                          /\ game._privateBoards[mark][cell[1]][cell[2]][cell[3]]
                          /\ ~isVisible => mark = PieceOf(game, viewer)

\* C31: projector and engine agree on ownership: in every reachable state,
\* the piece a client displays at a publicly visible cell is the piece whose
\* hidden occupancy holds that cell in the engine, and every mark a client
\* shows a player at a cell that is not visible is of that player's piece and
\* at a cell that piece holds in hidden occupancy.
C31_OwnershipAgrees == []ShownMarksAreHeld

\* X's client shows O on a revealed cell that O holds and X collided on, and
\* X on a hidden cell that X holds.
C31_Witness ==
    /\ BothSlotsOccupied(game)
    /\ \E seen, own \in Cells :
          /\ game.state.publiclyVisible[seen[1]][seen[2]][seen[3]]
          /\ Played(game, "X", seen)
          /\ Shown(game, game.state.x)[seen[1]][seen[2]][seen[3]] = "O"
          /\ game._privateBoards["O"][seen[1]][seen[2]][seen[3]]
          /\ ~game.state.publiclyVisible[own[1]][own[2]][own[3]]
          /\ Shown(game, game.state.x)[own[1]][own[2]][own[3]] = "X"
          /\ game._privateBoards["X"][own[1]][own[2]][own[3]]

\* C32: a leave while both slots are occupied changes only the status, the
\* winner and the slot of the player who leaves: the move log, the move
\* count, both scores, the visibility, the hidden occupancy and the board
\* winners are after it what they were before.
C32_MidGameLeaveFrame ==
    [][MidGameLeaveStep =>
          /\ game'.state.moves = game.state.moves
          /\ game'._moveCount = game._moveCount
          /\ game'.state.xScore = game.state.xScore
          /\ game'.state.oScore = game.state.oScore
          /\ game'._xScore = game._xScore
          /\ game'._oScore = game._oScore
          /\ game'.state.publiclyVisible = game.state.publiclyVisible
          /\ game'._privateBoards = game._privateBoards
          /\ game'._boardWinners = game._boardWinners
          /\ \/ game'.state.x = game.state.x
             \/ game'.state.o = game.state.o]_vars

\* A player has left a game in progress that had moves, a revealed cell and
\* a board won: all of them are still there, with the game OVER.
C32_Witness ==
    /\ game.state.status = "OVER"
    /\ ~BothSlotsOccupied(game)
    /\ game.state.winner \in {game.state.x, game.state.o} \ {Undefined}
    /\ ~AllBoardsDone(game)
    /\ game._moveCount = Len(game.state.moves)
    /\ game._moveCount > 0
    /\ game.state.xScore + game.state.oScore > 0
    /\ \E b \in BoardID : game._boardWinners[b] # Undefined
    /\ \E cell \in Cells :
          /\ game.state.publiclyVisible[cell[1]][cell[2]][cell[3]]
          /\ \E piece \in PlayerPiece :
                game._privateBoards[piece][cell[1]][cell[2]][cell[3]]

====
